---- MODULE Spec2Model ----
(***************************************************************************)
(* EventDrivenOrchestrator.execute (amplifier_module_loop_events) as a      *)
(* state machine.  One action per suspend point (await) of execute(); the   *)
(* collaborators (hook registry, context, provider, tools) are the          *)
(* environment: what they return is chosen nondeterministically, what the   *)
(* orchestrator sends them is logged: `trace` keeps which call was made,   *)
(* for which tool call and how it ended, for the whole session; `recent`    *)
(* keeps the same calls with their payloads and verdicts, from the start of *)
(* the iteration, tool call or compaction check in progress.                *)
(*                                                                          *)
(* Python values: a str that is only compared (names, reasons, exception    *)
(* texts) is a TLA+ string, None is the string None below; a str built by   *)
(* an f-string (message contents, the returned text) is the sequence of its *)
(* pieces, the empty text being << >>.                                      *)
(***************************************************************************)
EXTENDS Integers, Sequences, FiniteSets, TLC

\* ------------------------------------------------------------------ bounds
MaxIterations == 2      \* largest configured max_iterations explored
MinIterations == 1      \* max_iterations ranges over -MinIterations..MaxIterations
MaxCalls == 2           \* most tool calls in one provider response
MaxTotalCalls == 2      \* most tool calls the provider requests in one session

\* ------------------------------------------------------------------ values
None == "<None>"
ToolNames == {"t1", "t2"}                 \* names the model or a scheduler may use
ToolSets == {{}, {"t1"}}                  \* the tools mappings explored (their keys)
Args == {"a1"}                            \* opaque tool arguments
Contents == {<< >>, <<"c1">>}             \* response.content: "" or a text
Reasons == {None, "", "r1"}               \* HookResult.reason
Errors == {"boom"}                        \* str(e) of a raised exception
Outputs == {"out1"}                       \* ToolResult.output / ToolResult.error
\* The providers mappings (keys in iteration order) and config default_provider
\* values explored: no provider without and with a default, and two providers
\* of which the default is the second.
ProviderConfigs ==
    {[providers |-> << >>, default_provider |-> None],
     [providers |-> << >>, default_provider |-> "p2"],
     [providers |-> <<"p1", "p2">>, default_provider |-> "p2"]}

\* A dict is a set of <<key, value>> pairs; an optional dict says whether it is None.
NoData == [isNone |-> TRUE, items |-> {}]
Dict(items) == [isNone |-> FALSE, items |-> items]
Datas == {NoData, Dict({}), Dict({<<"arguments", "a2">>}),
          Dict({<<"tool", "t1">>, <<"arguments", "a2">>}), Dict({<<"tool", "t2">>})}

\* HookResult (amplifier_core): action, reason, data.
Allow == [action |-> "allow", reason |-> None, data |-> NoData]
HookResults ==
    {Allow}
    \cup {[action |-> "deny", reason |-> r, data |-> NoData] : r \in Reasons}
    \cup {[action |-> "modify", reason |-> None, data |-> d] : d \in Datas}

\* The HookResults explored as the verdict of tool:pre, of which execute() reads
\* the action and, on deny, the reason: allow, every deny, and one modify.
PreResults ==
    {Allow}
    \cup {[action |-> "deny", reason |-> r, data |-> NoData] : r \in Reasons}
    \cup {[action |-> "modify", reason |-> None, data |-> Dict({<<"tool", "t2">>})]}

\* No HookResult is being discarded.
NoVerdict == [action |-> "none", reason |-> None, data |-> NoData]

\* The HookResults explored where execute() drops the result: one of each action.
DiscardedResults ==
    {Allow,
     [action |-> "deny", reason |-> "r1", data |-> NoData],
     [action |-> "modify", reason |-> None, data |-> Dict({<<"tool", "t2">>})]}

\* Python truthiness of an optional str and of an optional dict.
TruthyStr(s) == s # None /\ s # ""
TruthyDict(d) == ~d.isNone /\ d.items # {}

\* dict.get(key, default)
DictGet(d, key, default) ==
    IF \E p \in d.items : p[1] = key
    THEN (CHOOSE p \in d.items : p[1] = key)[2]
    ELSE default

\* ToolResult (amplifier_core): success, output, error.
NoResult == [success |-> FALSE, output |-> None, error |-> << >>]
ToolResults ==
    {[success |-> TRUE, output |-> o, error |-> << >>] : o \in Outputs}
    \cup {[success |-> FALSE, output |-> None, error |-> <<o>>] : o \in Outputs}

\* ------------------------------------------------------------------ state
VARIABLES
    max_iterations,     \* self.max_iterations
    default_provider,   \* self.default_provider
    providers,          \* execute() argument: provider keys in iteration order
    tools,              \* execute() argument: the keys of the tools mapping
    pc,                 \* position of execute()
    provider,           \* local: selected provider (None: not selected)
    iteration,          \* local
    final_response,     \* local
    response,           \* local: last provider response
    tool_calls,         \* local: parse_tool_calls(response); once the for loop
                        \* runs, the calls its iterator has not yet yielded
    tool_call,          \* local: the for loop's variable
    tool_name,          \* local
    hook_result,        \* local: verdict of tool:selecting
    pre_hook_result,    \* local: verdict of tool:pre
    tool,               \* local: tools.get(tool_name)
    result,             \* local: ToolResult of the call
    exc,                \* the exception caught and being reported
    ret,                \* value returned by execute() (None: not returned)
    nextId,             \* provider side: id of the next tool call it issues
    trace,              \* every collaborator call made so far, in order (Skeleton)
    recent,             \* the calls since the iteration or tool call began, in full
    discarded,          \* the HookResult just returned by a hooks.emit whose value
                        \* execute() does not bind (NoVerdict: none)
    other,              \* a second execute() invocation on the same orchestrator,
                        \* suspended: its position, locals and collaborators' logs
    sid                 \* which of the two invocations is the running one (1 or 2)

config == <<max_iterations, default_provider, providers, tools>>
locals == <<provider, iteration, final_response, response, tool_calls, tool_call,
            tool_name, hook_result, pre_hook_result, tool, result, exc>>
logs == <<trace, recent>>
sessions == <<other, sid>>
vars == <<config, pc, locals, ret, nextId, logs, discarded, sessions>>

\* ------------------------------------------------------------------ log entries
\* ids: the ids of the tool calls the collaborator call is about.
\* hooks.emit(event, payload); verdict: the returned HookResult where execute()
\* binds it (hook_result, pre_hook_result), Allow in the log where it does not.
Emit(event, ids, payload, verdict) ==
    [op |-> "emit", name |-> event, ids |-> ids, outcome |-> "ok",
     data |-> payload, verdict |-> verdict]
\* The tool-call ids a message carries: its tool_call_id, or those of its tool_calls.
MsgIds(msg) ==
    IF msg.role = "tool" THEN <<msg.tool_call_id>>
    ELSE IF "tool_calls" \in DOMAIN msg
         THEN [i \in 1..Len(msg.tool_calls) |-> msg.tool_calls[i].id]
         ELSE << >>
\* context.add_message(msg)
AddMessage(msg) ==
    [op |-> "add_message", name |-> msg.role, ids |-> MsgIds(msg), outcome |-> "ok",
     data |-> msg, verdict |-> Allow]
\* any other collaborator call: on whom, with what (a record: the arguments, or
\* the iteration the call is made in), and how it ended
Call(op, on, ids, data, outcome) ==
    [op |-> op, name |-> on, ids |-> ids, outcome |-> outcome,
     data |-> data, verdict |-> Allow]
\* what `trace` keeps of an entry
Skeleton(e) == [op |-> e.op, name |-> e.name, ids |-> e.ids, outcome |-> e.outcome]

NoResponse == [content |-> << >>, tool_calls |-> << >>]
NoCall == [tool |-> None, arguments |-> None, id |-> 0]   \* tool_call outside a call
NotReturned == <<None>>      \* ret while execute() has not returned


Prompt == "hi"

\* ------------------------------------------------------------------ pure parts
\* Mutant of SelectProvider: the configured default is not consulted.
SelectProvider_AlwaysFirst(provs, default) ==
    IF Len(provs) = 0 THEN None ELSE provs[1]

\* _select_provider: None for an empty mapping, the configured default when it is
\* truthy and a key of the mapping, else the first entry in the mapping's
\* iteration order.  (A provider is named by its key.)
SelectProvider(provs, default) ==
    IF Len(provs) = 0 THEN None
    ELSE IF TruthyStr(default) /\ \E i \in 1..Len(provs) : provs[i] = default
         THEN default
         ELSE provs[1]

\* Mutant of ResolveTool: the scheduler's rewrite is dropped.
ResolveTool_KeepRequested(hr, name) == name

\* The tool name after the tool:selecting verdict (lines 141-143).
ResolveTool(hr, name) ==
    IF hr.action = "modify"
    THEN IF TruthyDict(hr.data) THEN DictGet(hr.data, "tool", name) ELSE name
    ELSE name

\* Payload of tool:selected (lines 149-153).
SelectedPayload(name, hr, tc) ==
    [tool |-> name,
     source |-> IF hr.action = "modify" THEN "scheduler" ELSE "llm",
     original_tool |-> IF hr.action = "modify" THEN tc.tool ELSE None]

\* tools.get(tool_name): the tool object (named by its key) or None.
ToolsGet(ts, name) == IF name \in ts THEN name ELSE None

\* Payload of tool:pre (lines 160-162): tool_obj only when the tool was found.
PrePayload(name, tc, t) ==
    [tool |-> name, arguments |-> tc.arguments, tool_obj |-> t]

\* A tool-role message (the four call sites share the shape).
ToolMessage(name, tc, content) ==
    [role |-> "tool", name |-> name, tool_call_id |-> tc.id, content |-> content]

\* Content of the reply to a call that tool:selecting denied (lines 131, 137).
SelectingDenyContent(hr) ==
    <<"Error: ",
      IF TruthyStr(hr.reason) THEN hr.reason ELSE "Tool execution denied by scheduler">>

\* Content of the reply to a call that tool:pre denied (lines 167, 173).
PreDenyContent(hr) ==
    <<"Error: ", IF TruthyStr(hr.reason) THEN hr.reason ELSE "Tool execution denied">>

\* Content of the reply to a call whose tool is missing (line 186).
NotFoundContent(name) == <<"Error: Tool ", name, " not found">>

\* ToolResult built from a raised exception (line 205).
RaisedResult(e) ==
    [success |-> FALSE, output |-> None, error |-> <<"{'message': '", e, "'}">>]

\* Content of the reply after an execution attempt (line 232).
ResultContent(r) ==
    IF r.success THEN <<r.output>> ELSE <<"Error: ">> \o r.error

\* The assistant message that carries the tool calls (lines 110-116).
AssistantCallsMessage(resp, calls) ==
    [role |-> "assistant",
     content |-> IF resp.content # << >> THEN resp.content ELSE << >>,
     tool_calls |-> [i \in 1..Len(calls) |->
                       [tool |-> calls[i].tool, arguments |-> calls[i].arguments,
                        id |-> calls[i].id]]]

\* The provider's possible lists of n tool calls, ids issued from `first` on.
ToolCallLists(n, first) ==
    {[i \in 1..n |-> [tool |-> f[i][1], arguments |-> f[i][2], id |-> first + i - 1]] :
        f \in [1..n -> ToolNames \X Args]}

\* Mutant of AfterSelecting: the veto is not honoured.
AfterSelecting_IgnoreDeny(hr) == "selected"

\* Where execute() goes after the verdict of tool:selecting (lines 129, 140).
AfterSelecting(hr) == IF hr.action = "deny" THEN "deny_msg" ELSE "selected"

\* Mutant of AfterPre: the existence check comes first and the veto is lost for
\* a tool that exists.
AfterPre_IgnoreDeny(hr, t) == IF t = None THEN "not_found_msg" ELSE "execute"

\* Where execute() goes after the verdict of tool:pre (lines 165, 179).
AfterPre(hr, t) ==
    IF hr.action = "deny" THEN "pre_deny_msg"
    ELSE IF t = None THEN "not_found_msg"
    ELSE "execute"

\* Mutant of LoopContinues: off by one.
LoopContinues_OffByOne(it, max) == it <= max

\* The while condition (line 76).
LoopContinues(it, max) == it < max

\* Log a collaborator call; LogFresh when it opens an iteration, a tool call or the
\* compaction check that follows the tool calls.
Log(e) ==
    /\ trace' = Append(trace, Skeleton(e))
    /\ recent' = Append(recent, e)
    /\ discarded' = NoVerdict
LogFresh(e) ==
    /\ trace' = Append(trace, Skeleton(e))
    /\ recent' = <<e>>
    /\ discarded' = NoVerdict
\* Log an emission whose returned HookResult, whatever it is, execute() drops.
LogDiscard(e) ==
    /\ trace' = Append(trace, Skeleton(e))
    /\ recent' = Append(recent, e)
    /\ discarded' \in DiscardedResults


\* An execute() invocation that has just been entered, whose provider issues
\* tool-call ids from `first` on.
Entered(first) ==
    [pc |-> "start", provider |-> None, iteration |-> 0, final_response |-> << >>,
     response |-> NoResponse, tool_calls |-> << >>, tool_call |-> NoCall,
     tool_name |-> None, hook_result |-> Allow, pre_hook_result |-> Allow,
     tool |-> None, result |-> NoResult, exc |-> None, ret |-> NotReturned,
     nextId |-> first, trace |-> << >>, recent |-> << >>, discarded |-> NoVerdict]

\* The running invocation: its frame (position, locals, return value) and what
\* its own collaborators (context, hooks, provider side) have seen.
Running ==
    [pc |-> pc, provider |-> provider, iteration |-> iteration,
     final_response |-> final_response, response |-> response,
     tool_calls |-> tool_calls, tool_call |-> tool_call, tool_name |-> tool_name,
     hook_result |-> hook_result, pre_hook_result |-> pre_hook_result,
     tool |-> tool, result |-> result, exc |-> exc, ret |-> ret,
     nextId |-> nextId, trace |-> trace, recent |-> recent, discarded |-> discarded]

\* ------------------------------------------------------------------ Init
Init ==
    /\ max_iterations \in (0 - MinIterations)..MaxIterations
    /\ \E c \in ProviderConfigs :
         /\ providers = c.providers
         /\ default_provider = c.default_provider
    /\ tools \in ToolSets
    /\ pc = "start"
    /\ provider = None
    /\ iteration = 0
    /\ final_response = << >>
    /\ response = NoResponse
    /\ tool_calls = << >>
    /\ tool_call = NoCall
    /\ tool_name = None
    /\ hook_result = Allow
    /\ pre_hook_result = Allow
    /\ tool = None
    /\ result = NoResult
    /\ exc = None
    /\ ret = NotReturned
    /\ nextId = 1
    /\ trace = << >>
    /\ recent = << >>
    /\ discarded = NoVerdict
    /\ other = Entered(1)
    /\ sid = 1


\* ------------------------------------------------------------------ execute()
TC == tool_call

\* Leaving the body of the for loop (continue, or the end of the body): the next
\* tool call; the locals of the finished call are dead and are reset.
NextCall ==
    /\ tool_call' = NoCall
    /\ tool_name' = None
    /\ hook_result' = Allow
    /\ pre_hook_result' = Allow
    /\ tool' = None
    /\ result' = NoResult
    /\ exc' = None

CallLocals == <<tool_name, hook_result, pre_hook_result, tool, result, exc>>

\* line 63
EmitSessionStart ==
    /\ pc = "start"
    /\ LogDiscard(Emit("session:start", << >>, [prompt |-> Prompt], Allow))
    /\ pc' = "add_user"
    /\ UNCHANGED <<config, sessions, locals, ret, nextId>>

\* line 66
AddUserMessage ==
    /\ pc = "add_user"
    /\ Log(AddMessage([role |-> "user", content |-> <<Prompt>>]))
    /\ pc' = "select"
    /\ UNCHANGED <<config, sessions, locals, ret, nextId>>

\* Mutant of SelectProviderStep: without a provider execute() leaves through the
\* end of the function (session:end) instead of returning at once.
SelectProviderStep_ToEnd ==
    /\ pc = "select"
    /\ provider' = SelectProvider(providers, default_provider)
    /\ IF provider' = None
       THEN /\ final_response' = <<"Error: No providers available">>
            /\ pc' = "end"
       ELSE /\ final_response' = << >>
            /\ pc' = "loop"
    /\ iteration' = 0
    /\ UNCHANGED <<config, sessions, response, tool_calls, tool_call, CallLocals, ret, nextId, logs>>
    /\ discarded' = NoVerdict

\* lines 69-74
SelectProviderStep ==
    /\ pc = "select"
    /\ provider' = SelectProvider(providers, default_provider)
    /\ IF provider' = None
       THEN /\ ret' = <<"Error: No providers available">>
            /\ pc' = "done"
       ELSE /\ ret' = ret
            /\ pc' = "loop"
    /\ iteration' = 0
    /\ final_response' = << >>
    /\ UNCHANGED <<config, sessions, response, tool_calls, tool_call, CallLocals, nextId, logs>>
    /\ discarded' = NoVerdict

\* Mutant of LoopEnter: the iteration counter is not advanced.
LoopEnter_NoIncrement ==
    /\ pc = "loop"
    /\ LoopContinues(iteration, max_iterations)
    /\ LogFresh(Call("get_messages", "context", << >>, << >>, "ok"))
    /\ pc' = "complete"
    /\ UNCHANGED <<config, sessions, provider, iteration, final_response, response,
                   tool_calls, tool_call, CallLocals, ret, nextId>>

\* Mutant of LoopEnter: the iterations left are counted down in the orchestrator
\* (self.max_iterations), which every session shares.
LoopEnter_CountDown ==
    /\ pc = "loop"
    /\ LoopContinues(iteration, max_iterations)
    /\ max_iterations' = max_iterations - 1
    /\ LogFresh(Call("get_messages", "context", << >>, << >>, "ok"))
    /\ pc' = "complete"
    /\ UNCHANGED <<default_provider, providers, tools, sessions, provider, iteration,
                   final_response, response, tool_calls, tool_call, CallLocals, ret, nextId>>

\* lines 76-80: the while test, iteration += 1, context.get_messages()
LoopEnter ==
    /\ pc = "loop"
    /\ LoopContinues(iteration, max_iterations)
    /\ iteration' = iteration + 1
    /\ LogFresh(Call("get_messages", "context", << >>, << >>, "ok"))
    /\ pc' = "complete"
    /\ UNCHANGED <<config, sessions, provider, final_response, response, tool_calls, tool_call,
                   CallLocals, ret, nextId>>

\* line 76, condition false: fall out of the while loop
LoopExit ==
    /\ pc = "loop"
    /\ ~LoopContinues(iteration, max_iterations)
    /\ pc' = "end"
    /\ UNCHANGED <<config, sessions, locals, ret, nextId, logs>>
    /\ discarded' = NoVerdict

\* lines 85-87: provider.complete raises
CompleteRaises ==
    /\ pc = "complete"
    /\ \E e \in Errors :
         /\ exc' = e
         /\ Log(Call("complete", provider, << >>, [iteration |-> iteration], "raise"))
    /\ pc' = "error_provider"
    /\ UNCHANGED <<config, sessions, provider, iteration, final_response, response, tool_calls,
                   tool_call, tool_name, hook_result, pre_hook_result, tool, result, ret, nextId>>

\* lines 85, 101-105: the response has no tool calls
CompleteFinal ==
    /\ pc = "complete"
    /\ \E c \in Contents :
         /\ response' = [content |-> c, tool_calls |-> << >>]
         /\ final_response' = c
    /\ tool_calls' = << >>
    /\ Log(Call("complete", provider, << >>, [iteration |-> iteration], "ok"))
    /\ pc' = "add_final"
    /\ UNCHANGED <<config, sessions, provider, iteration, tool_call, CallLocals, ret, nextId>>

\* lines 85, 101-103: the response carries tool calls
CompleteToolCalls ==
    /\ pc = "complete"
    /\ \E c \in Contents, n \in 1..MaxCalls :
         /\ nextId + n - 1 <= MaxTotalCalls
         /\ \E calls \in ToolCallLists(n, nextId) :
              /\ response' = [content |-> c, tool_calls |-> calls]
              /\ tool_calls' = calls
         /\ nextId' = nextId + n
    /\ Log(Call("complete", provider, << >>, [iteration |-> iteration], "ok"))
    /\ pc' = "add_assistant"
    /\ UNCHANGED <<config, sessions, provider, iteration, final_response, tool_call, CallLocals, ret>>

\* Mutant of EmitErrorProvider: the break is missing, the loop goes on.
EmitErrorProvider_Continue ==
    /\ pc = "error_provider"
    /\ Log(Emit("error:provider", << >>,
                [error_type |-> "completion_failed", error_message |-> exc,
                 severity |-> "high"], Allow))
    /\ final_response' = <<"Error getting response: ", exc>>
    /\ exc' = None
    /\ pc' = "loop"
    /\ UNCHANGED <<config, sessions, provider, iteration, response, tool_calls, tool_call, tool_name,
                   hook_result, pre_hook_result, tool, result, ret, nextId>>

\* Mutant of EmitErrorProvider: the error text is returned at once, past session:end.
EmitErrorProvider_EarlyReturn ==
    /\ pc = "error_provider"
    /\ Log(Emit("error:provider", << >>,
                [error_type |-> "completion_failed", error_message |-> exc,
                 severity |-> "high"], Allow))
    /\ final_response' = <<"Error getting response: ", exc>>
    /\ ret' = <<"Error getting response: ", exc>>
    /\ exc' = None
    /\ pc' = "done"
    /\ UNCHANGED <<config, sessions, provider, iteration, response, tool_calls, tool_call, tool_name,
                   hook_result, pre_hook_result, tool, result, nextId>>

\* lines 89-98
EmitErrorProvider ==
    /\ pc = "error_provider"
    /\ LogDiscard(Emit("error:provider", << >>,
                [error_type |-> "completion_failed", error_message |-> exc,
                 severity |-> "high"], Allow))
    /\ final_response' = <<"Error getting response: ", exc>>
    /\ exc' = None
    /\ pc' = "end"
    /\ UNCHANGED <<config, sessions, provider, iteration, response, tool_calls, tool_call, tool_name,
                   hook_result, pre_hook_result, tool, result, ret, nextId>>

\* Mutant of AddFinalMessage: the break is missing, the loop goes on.
AddFinalMessage_NoBreak ==
    /\ pc = "add_final"
    /\ Log(AddMessage([role |-> "assistant", content |-> final_response]))
    /\ pc' = "loop"
    /\ UNCHANGED <<config, sessions, locals, ret, nextId>>

\* lines 106-107
AddFinalMessage ==
    /\ pc = "add_final"
    /\ Log(AddMessage([role |-> "assistant", content |-> final_response]))
    /\ pc' = "end"
    /\ UNCHANGED <<config, sessions, locals, ret, nextId>>

\* Mutant of AddAssistantMessage: the message is appended without its tool_calls.
AddAssistantMessage_NoCalls ==
    /\ pc = "add_assistant"
    /\ Log(AddMessage([role |-> "assistant", content |-> response.content]))
    /\ response' = NoResponse
    /\ pc' = "for"
    /\ UNCHANGED <<config, sessions, provider, iteration, final_response, tool_calls, tool_call,
                   CallLocals, ret, nextId>>

\* lines 110-119 (response is not read again before the next completion: reset)
AddAssistantMessage ==
    /\ pc = "add_assistant"
    /\ Log(AddMessage(AssistantCallsMessage(response, tool_calls)))
    /\ response' = NoResponse
    /\ pc' = "for"
    /\ UNCHANGED <<config, sessions, provider, iteration, final_response, tool_calls, tool_call,
                   CallLocals, ret, nextId>>

\* Mutant of EmitToolSelecting: the calls are taken from the end of the list.
EmitToolSelecting_LastFirst ==
    /\ pc = "for"
    /\ tool_calls # << >>
    /\ tool_call' = tool_calls[Len(tool_calls)]
    /\ tool_calls' = SubSeq(tool_calls, 1, Len(tool_calls) - 1)
    /\ \E hr \in HookResults :
         /\ LogFresh(Emit("tool:selecting", <<tool_call'.id>>,
                     [tool |-> tool_call'.tool, arguments |-> tool_call'.arguments,
                      available_tools |-> tools], hr))
         /\ hook_result' = hr
         /\ tool_name' = ResolveTool(hr, tool_call'.tool)
         /\ pc' = AfterSelecting(hr)
    /\ UNCHANGED <<config, sessions, provider, iteration, final_response, response,
                   pre_hook_result, tool, result, exc, ret, nextId>>

\* lines 119-143: tool:selecting and its verdict
EmitToolSelecting ==
    /\ pc = "for"
    /\ tool_calls # << >>
    /\ tool_call' = Head(tool_calls)
    /\ tool_calls' = Tail(tool_calls)
    /\ \E hr \in HookResults :
         /\ LogFresh(Emit("tool:selecting", <<tool_call'.id>>,
                     [tool |-> tool_call'.tool, arguments |-> tool_call'.arguments,
                      available_tools |-> tools], hr))
         /\ hook_result' = hr
         /\ tool_name' = ResolveTool(hr, tool_call'.tool)
         /\ pc' = AfterSelecting(hr)
    /\ UNCHANGED <<config, sessions, provider, iteration, final_response, response,
                   pre_hook_result, tool, result, exc, ret, nextId>>

\* lines 132-140
AddSelectingDenyMessage ==
    /\ pc = "deny_msg"
    /\ Log(AddMessage(ToolMessage(tool_name, TC, SelectingDenyContent(hook_result))))
    /\ NextCall
    /\ pc' = "for"
    /\ UNCHANGED <<config, sessions, provider, iteration, final_response, response, tool_calls,
                   ret, nextId>>

\* Mutant of EmitToolSelected: the existence check comes before tool:pre, which a
\* missing tool never gets.
EmitToolSelected_SkipPre ==
    /\ pc = "selected"
    /\ Log(Emit("tool:selected", <<TC.id>>, SelectedPayload(tool_name, hook_result, TC), Allow))
    /\ tool' = ToolsGet(tools, tool_name)
    /\ pc' = IF tool' = None THEN "not_found_msg" ELSE "pre"
    /\ UNCHANGED <<config, sessions, provider, iteration, final_response, response, tool_calls,
                   tool_call, tool_name, hook_result, pre_hook_result, result, exc, ret, nextId>>

\* lines 147-157
EmitToolSelected ==
    /\ pc = "selected"
    /\ LogDiscard(Emit("tool:selected", <<TC.id>>, SelectedPayload(tool_name, hook_result, TC), Allow))
    /\ tool' = ToolsGet(tools, tool_name)
    /\ pc' = "pre"
    /\ UNCHANGED <<config, sessions, provider, iteration, final_response, response, tool_calls,
                   tool_call, tool_name, hook_result, pre_hook_result, result, exc, ret, nextId>>

\* Mutant of EmitToolPre: a modify returned by tool:pre renames the tool too.
EmitToolPre_HonoursModify ==
    /\ pc = "pre"
    /\ \E hr \in PreResults :
         /\ Log(Emit("tool:pre", <<TC.id>>, PrePayload(tool_name, TC, tool), hr))
         /\ pre_hook_result' = hr
         /\ tool_name' = ResolveTool(hr, tool_name)
         /\ tool' = ToolsGet(tools, tool_name')
         /\ pc' = AfterPre(hr, tool')
    /\ UNCHANGED <<config, sessions, provider, iteration, final_response, response, tool_calls,
                   tool_call, hook_result, result, exc, ret, nextId>>

\* lines 160-165, 179: tool:pre and its verdict
EmitToolPre ==
    /\ pc = "pre"
    /\ \E hr \in PreResults :
         /\ Log(Emit("tool:pre", <<TC.id>>, PrePayload(tool_name, TC, tool), hr))
         /\ pre_hook_result' = hr
         /\ pc' = AfterPre(hr, tool)
    /\ UNCHANGED <<config, sessions, provider, iteration, final_response, response, tool_calls,
                   tool_call, tool_name, hook_result, tool, result, exc, ret, nextId>>

\* lines 167-176
AddPreDenyMessage ==
    /\ pc = "pre_deny_msg"
    /\ Log(AddMessage(ToolMessage(tool_name, TC, PreDenyContent(pre_hook_result))))
    /\ NextCall
    /\ pc' = "for"
    /\ UNCHANGED <<config, sessions, provider, iteration, final_response, response, tool_calls,
                   ret, nextId>>

\* Mutant of AddNotFoundMessage: the missing tool is reported but not answered.
AddNotFoundMessage_NoReply ==
    /\ pc = "not_found_msg"
    /\ pc' = "error_not_found"
    /\ UNCHANGED <<config, sessions, locals, ret, nextId, logs>>
    /\ discarded' = NoVerdict

\* lines 181-188
AddNotFoundMessage ==
    /\ pc = "not_found_msg"
    /\ Log(AddMessage(ToolMessage(tool_name, TC, NotFoundContent(tool_name))))
    /\ pc' = "error_not_found"
    /\ UNCHANGED <<config, sessions, locals, ret, nextId>>

\* Mutant of EmitToolNotFound: a missing tool ends the loop.
EmitToolNotFound_Break ==
    /\ pc = "error_not_found"
    /\ Log(Emit("error:tool", <<TC.id>>,
                [error_type |-> "tool_not_found",
                 error_message |-> <<"Tool ", tool_name, " not found">>,
                 tool |-> None, severity |-> "medium"], Allow))
    /\ NextCall
    /\ pc' = "end"
    /\ UNCHANGED <<config, sessions, provider, iteration, final_response, response, tool_calls,
                   ret, nextId>>

\* lines 190-198
EmitToolNotFound ==
    /\ pc = "error_not_found"
    /\ LogDiscard(Emit("error:tool", <<TC.id>>,
                [error_type |-> "tool_not_found",
                 error_message |-> <<"Tool ", tool_name, " not found">>,
                 tool |-> None, severity |-> "medium"], Allow))
    /\ NextCall
    /\ pc' = "for"
    /\ UNCHANGED <<config, sessions, provider, iteration, final_response, response, tool_calls,
                   ret, nextId>>

\* line 202: tool.execute returns a ToolResult
ExecuteReturns ==
    /\ pc = "execute"
    /\ \E r \in ToolResults : result' = r
    /\ Log(Call("execute", tool, <<TC.id>>, [arguments |-> TC.arguments], "ok"))
    /\ pc' = "post"
    /\ UNCHANGED <<config, sessions, provider, iteration, final_response, response, tool_calls,
                   tool_call, tool_name, hook_result, pre_hook_result, tool, exc, ret, nextId>>

\* lines 202-205: tool.execute raises
ExecuteRaises ==
    /\ pc = "execute"
    /\ \E e \in Errors :
         /\ exc' = e
         /\ result' = RaisedResult(e)
    /\ Log(Call("execute", tool, <<TC.id>>, [arguments |-> TC.arguments], "raise"))
    /\ pc' = "error_tool"
    /\ UNCHANGED <<config, sessions, provider, iteration, final_response, response, tool_calls,
                   tool_call, tool_name, hook_result, pre_hook_result, tool, ret, nextId>>

\* Mutant of EmitToolFailed: a tool failure ends the loop.
EmitToolFailed_Break ==
    /\ pc = "error_tool"
    /\ Log(Emit("error:tool", <<TC.id>>,
                [error_type |-> "execution_failed", error_message |-> <<exc>>,
                 tool |-> tool_name, severity |-> "high"], Allow))
    /\ exc' = None
    /\ pc' = "end"
    /\ UNCHANGED <<config, sessions, provider, iteration, final_response, response, tool_calls,
                   tool_call, tool_name, hook_result, pre_hook_result, tool, result, ret, nextId>>

\* lines 207-215
EmitToolFailed ==
    /\ pc = "error_tool"
    /\ LogDiscard(Emit("error:tool", <<TC.id>>,
                [error_type |-> "execution_failed", error_message |-> <<exc>>,
                 tool |-> tool_name, severity |-> "high"], Allow))
    /\ exc' = None
    /\ pc' = "post"
    /\ UNCHANGED <<config, sessions, provider, iteration, final_response, response, tool_calls,
                   tool_call, tool_name, hook_result, pre_hook_result, tool, result, ret, nextId>>

\* Mutant of EmitToolPost: a deny returned for tool:post suppresses the reply.
EmitToolPost_HonoursDeny ==
    /\ pc = "post"
    /\ LogDiscard(Emit("tool:post", <<TC.id>>, [tool |-> tool_name, result |-> result], Allow))
    /\ pc' = IF discarded'.action = "deny" THEN "for" ELSE "add_result"
    /\ UNCHANGED <<config, sessions, locals, ret, nextId>>

\* lines 218-224
EmitToolPost ==
    /\ pc = "post"
    /\ LogDiscard(Emit("tool:post", <<TC.id>>, [tool |-> tool_name, result |-> result], Allow))
    /\ pc' = "add_result"
    /\ UNCHANGED <<config, sessions, locals, ret, nextId>>

\* lines 227-234
AddResultMessage ==
    /\ pc = "add_result"
    /\ Log(AddMessage(ToolMessage(tool_name, TC, ResultContent(result))))
    /\ NextCall
    /\ pc' = "for"
    /\ UNCHANGED <<config, sessions, provider, iteration, final_response, response, tool_calls,
                   ret, nextId>>

\* line 237: the for loop is over; context.should_compact()
ShouldCompact ==
    /\ pc = "for"
    /\ tool_calls = << >>
    /\ \E b \in BOOLEAN :
         /\ LogFresh(Call("should_compact", "context", << >>, [iteration |-> iteration],
                          IF b THEN "yes" ELSE "no"))
         /\ pc' = IF b THEN "pre_compact" ELSE "loop"
    /\ UNCHANGED <<config, sessions, locals, ret, nextId>>

\* Mutant of EmitPreCompact: the event is announced but compact() is not called.
EmitPreCompact_NoCompact ==
    /\ pc = "pre_compact"
    /\ Log(Emit("context:pre-compact", << >>, << >>, Allow))
    /\ pc' = "loop"
    /\ UNCHANGED <<config, sessions, locals, ret, nextId>>

\* line 238
EmitPreCompact ==
    /\ pc = "pre_compact"
    /\ LogDiscard(Emit("context:pre-compact", << >>, << >>, Allow))
    /\ pc' = "compact"
    /\ UNCHANGED <<config, sessions, locals, ret, nextId>>

\* line 239
Compact ==
    /\ pc = "compact"
    /\ Log(Call("compact", "context", << >>, [iteration |-> iteration], "ok"))
    /\ pc' = "loop"
    /\ UNCHANGED <<config, sessions, locals, ret, nextId>>

\* lines 242-244
EmitSessionEnd ==
    /\ pc = "end"
    /\ LogDiscard(Emit("session:end", << >>, [response |-> final_response], Allow))
    /\ ret' = final_response
    /\ pc' = "done"
    /\ UNCHANGED <<config, sessions, locals, nextId>>

Next ==
    \/ EmitSessionStart
    \/ AddUserMessage
    \/ SelectProviderStep
    \/ LoopEnter
    \/ LoopExit
    \/ CompleteRaises
    \/ CompleteFinal
    \/ CompleteToolCalls
    \/ EmitErrorProvider
    \/ AddFinalMessage
    \/ AddAssistantMessage
    \/ EmitToolSelecting
    \/ AddSelectingDenyMessage
    \/ EmitToolSelected
    \/ EmitToolPre
    \/ AddPreDenyMessage
    \/ AddNotFoundMessage
    \/ EmitToolNotFound
    \/ ExecuteReturns
    \/ ExecuteRaises
    \/ EmitToolFailed
    \/ EmitToolPost
    \/ AddResultMessage
    \/ ShouldCompact
    \/ EmitPreCompact
    \/ Compact
    \/ EmitSessionEnd

Spec == Init /\ [][Next]_vars


\* ------------------------------------------------------------------ reading the logs
IsEmit(e, event) == e.op = "emit" /\ e.name = event
IsCall(e, op, outcome) == e.op = op /\ e.outcome = outcome
IsToolMessage(e) == e.op = "add_message" /\ e.name = "tool"
IsAssistantCalls(e) == e.op = "add_message" /\ e.name = "assistant" /\ e.ids # << >>
IsAssistantFinal(e) == e.op = "add_message" /\ e.name = "assistant" /\ e.ids = << >>

\* positions of a log whose entry is the emission of `event`, or a call of `op`
Emits(log, event) == {i \in DOMAIN log : IsEmit(log[i], event)}
Calls(log, op) == {i \in DOMAIN log : log[i].op = op}
\* positions of the tool-role messages that answer the tool call `id`
Replies(log, id) == {i \in DOMAIN log : IsToolMessage(log[i]) /\ log[i].ids = <<id>>}

\* The tool call in progress (or just finished): `recent` opens with its tool:selecting.
InCall == recent # << >> /\ IsEmit(recent[1], "tool:selecting")
CallId == recent[1].ids[1]
Requested == recent[1].data.tool
\* the ids of the calls the for loop has not yet taken
RemainingIds == [k \in DOMAIN tool_calls |-> tool_calls[k].id]

\* position in trace of the latest assistant message with tool calls (0: none)
RECURSIVE LastAssistantCallsUpTo(_)
LastAssistantCallsUpTo(i) ==
    IF i = 0 THEN 0
    ELSE IF IsAssistantCalls(trace[i]) THEN i
    ELSE LastAssistantCallsUpTo(i - 1)
LastAssistantCalls == LastAssistantCallsUpTo(Len(trace))

\* what has been logged since that message
SinceAssistantCalls == SubSeq(trace, LastAssistantCalls + 1, Len(trace))

\* the tool_call_ids of the tool-role messages appended since that message, in order
ReplyIds ==
    LET replies == SelectSeq(SinceAssistantCalls, IsToolMessage)
    IN  [k \in DOMAIN replies |-> replies[k].ids[1]]

\* The call that `recent` opens with is finished and the for loop is at the call
\* that follows it in the assistant message (or, after the last call, at its end).
AtNextCall ==
    /\ pc = "for"
    /\ LastAssistantCalls # 0
    /\ LET ids == trace[LastAssistantCalls].ids
       IN  \E k \in DOMAIN ids :
             ids[k] = CallId /\ RemainingIds = SubSeq(ids, k + 1, Len(ids))

\* the positions of execute() inside the for loop over tool_calls
ForLoop == {"for", "deny_msg", "selected", "pre", "pre_deny_msg", "not_found_msg",
            "error_not_found", "execute", "error_tool", "post", "add_result"}

\* ------------------------------------------------------------------ claims

\* C1: one-reply invariant.  The tool-role messages appended after the latest
\* assistant message with tool calls answer that message's calls one for one, in
\* order, each with the call's id: between two calls their ids are the ids of
\* the calls processed so far (those of the message less those the for loop has
\* still to take), and once the for loop has run out (and from then on, until the
\* next such assistant message) they are exactly the ids of the message's calls.  No tool-role message precedes the first such
\* assistant message.  (The logs only grow, so what holds of the latest assistant
\* message when the next one is appended holds of it for good.)
C1_OneReply ==
    /\ LastAssistantCalls = 0 => \A j \in DOMAIN trace : ~IsToolMessage(trace[j])
    /\ LastAssistantCalls # 0 =>
         LET ids == trace[LastAssistantCalls].ids
             replies == ReplyIds
         IN  /\ Len(replies) <= Len(ids)
             /\ replies = SubSeq(ids, 1, Len(replies))
             /\ \A k \in 1..Len(ids) : \A m \in 1..Len(ids) : ids[k] = ids[m] => k = m
             /\ pc = "for" => ids = replies \o RemainingIds
             /\ pc \notin ForLoop => replies = ids

\* C1 witness: an iteration with two tool calls is over; the first call was denied
\* at tool:selecting (no tool:selected for it), the second was executed and raised.
C1_Witness ==
    \E i \in DOMAIN trace :
      /\ IsAssistantCalls(trace[i])
      /\ Len(trace[i].ids) = 2
      /\ \E j \in DOMAIN trace : trace[j].op = "should_compact" /\ j > i
      /\ ~\E j \in Emits(trace, "tool:selected") : trace[j].ids = <<trace[i].ids[1]>>
      /\ \E j \in Calls(trace, "execute") :
           trace[j].ids = <<trace[i].ids[2]>> /\ trace[j].outcome = "raise"
      /\ Replies(trace, trace[i].ids[1]) # {}
      /\ Replies(trace, trace[i].ids[2]) # {}

\* C2: when tool:selecting returns deny for a call, the tool is not executed, no
\* tool:pre and no tool:post is emitted for the call, the only thing that follows
\* is one tool-role message for the call's id whose content is "Error: " and the
\* reason (the scheduler default when the reason is None or empty), and the for
\* loop is then at the next tool call.
C2_SelectingDeny ==
    (InCall /\ recent[1].verdict.action = "deny") =>
      LET reason == recent[1].verdict.reason
          text == IF reason \in {None, ""}
                  THEN "Tool execution denied by scheduler" ELSE reason
      IN  /\ \A i \in DOMAIN recent :
                /\ recent[i].op # "execute"
                /\ ~IsEmit(recent[i], "tool:pre")
                /\ ~IsEmit(recent[i], "tool:post")
          /\ Calls(trace, "execute") \cap {i \in DOMAIN trace : trace[i].ids = <<CallId>>} = {}
          /\ Len(recent) <= 2
          /\ Len(recent) = 1 => pc = "deny_msg"
          /\ Len(recent) = 2 =>
                /\ recent[2].op = "add_message"
                /\ recent[2].data = [role |-> "tool", name |-> Requested,
                                     tool_call_id |-> CallId,
                                     content |-> <<"Error: ", text>>]
                /\ AtNextCall

\* C2 witness: a call denied without a reason has got its reply and another tool
\* call of the same response is next.
C2_Witness ==
    /\ InCall
    /\ recent[1].verdict.action = "deny"
    /\ recent[1].verdict.reason = None
    /\ Len(recent) = 2
    /\ tool_calls # << >>

\* C3: when tool:selecting returns modify with data naming tool X, tool:selected
\* carries tool X, source "scheduler" and original_tool = the requested name; X is
\* the tool looked up (tool:pre carries X and X's tool object) and the only tool
\* executed for the call.  When the verdict is allow, tool:selected carries source
\* "llm" and the requested tool is the one looked up and executed.
C3_ModifyResolves ==
    (InCall /\ recent[1].verdict.action \in {"allow", "modify"}) =>
      LET v == recent[1].verdict
          named == v.action = "modify" /\ ~v.data.isNone
                   /\ \E p \in v.data.items : p[1] = "tool"
          X == (CHOOSE p \in v.data.items : p[1] = "tool")[2]
          expected == IF named THEN X ELSE Requested
      IN  (named \/ v.action = "allow") =>
            /\ Len(recent) >= 2 =>
                 /\ IsEmit(recent[2], "tool:selected")
                 /\ recent[2].data.tool = expected
                 /\ recent[2].data.source =
                      (IF v.action = "modify" THEN "scheduler" ELSE "llm")
                 /\ v.action = "modify" => recent[2].data.original_tool = Requested
            /\ Len(recent) >= 3 =>
                 /\ IsEmit(recent[3], "tool:pre")
                 /\ recent[3].data.tool = expected
                 /\ recent[3].data.tool_obj =
                      (IF expected \in tools THEN expected ELSE None)
            /\ \A i \in DOMAIN recent :
                 recent[i].op = "execute" => recent[i].name = expected

\* C3 witness: the model asked for t2 (not a tool), the scheduler rewrote the call
\* to t1, and t1 was executed.
C3_Witness ==
    /\ InCall
    /\ recent[1].verdict.action = "modify"
    /\ Requested = "t2"
    /\ \E i \in DOMAIN recent : recent[i].op = "execute" /\ recent[i].name = "t1"


\* number of provider.complete calls made, and of responses that carried tool calls
Completions == Cardinality(Calls(trace, "complete"))
ToolResponses == Cardinality({i \in DOMAIN trace : IsAssistantCalls(trace[i])})
Max0(n) == IF n > 0 THEN n ELSE 0

\* C4: once provider.complete has raised, the only things that follow are one
\* error:provider event (error_type "completion_failed", severity "high") and
\* session:end: no tool call is processed, no further completion is requested;
\* error:provider is emitted for no other reason, so it occurs exactly once in the
\* session, and execute() returns a text that starts with "Error getting response: ".
C4_ProviderFailure ==
    /\ \A i \in DOMAIN trace :
         IsCall(trace[i], "complete", "raise") =>
           /\ Len(trace) <= i + 2
           /\ Len(trace) = i => pc = "error_provider"
           /\ Len(trace) = i + 1 => IsEmit(trace[i + 1], "error:provider") /\ pc = "end"
           /\ Len(trace) = i + 2 =>
                /\ IsEmit(trace[i + 1], "error:provider")
                /\ IsEmit(trace[i + 2], "session:end")
                /\ pc = "done"
                /\ Cardinality(Emits(trace, "error:provider")) = 1
                /\ Len(ret) >= 1
                /\ ret[1] = "Error getting response: "
    /\ \A j \in Emits(trace, "error:provider") :
         j > 1 /\ IsCall(trace[j - 1], "complete", "raise")
    /\ \A j \in Emits(recent, "error:provider") :
         /\ recent[j].data.error_type = "completion_failed"
         /\ recent[j].data.severity = "high"

\* C4 witness: the provider failed in the second iteration, after a tool call had
\* been answered, and execute() has returned.
C4_Witness ==
    /\ pc = "done"
    /\ \E i \in DOMAIN trace : IsCall(trace[i], "complete", "raise")
    /\ \E i \in DOMAIN trace : IsToolMessage(trace[i])
    /\ ret = <<"Error getting response: ", "boom">>

\* C5: when the response of an iteration has no tool calls, what execute() does
\* from the start of that iteration is exactly: get the messages, request the
\* completion, append one assistant message whose content is the response
\* content, emit session:end; it returns that same content.  No tool event and no
\* further completion request occur.
C5_FinalAnswer ==
    (/\ Len(recent) >= 2
     /\ IsCall(recent[2], "complete", "ok")
     /\ tool_calls = << >>) =>
      LET answer == AddMessage([role |-> "assistant", content |-> response.content])
          finish == Emit("session:end", << >>, [response |-> response.content], Allow)
      IN  /\ recent[1].op = "get_messages"
          /\ pc \in {"add_final", "end", "done"}
          /\ pc = "add_final" => Len(recent) = 2
          /\ pc = "end" => SubSeq(recent, 3, Len(recent)) = <<answer>>
          /\ pc = "done" =>
               /\ SubSeq(recent, 3, Len(recent)) = <<answer, finish>>
               /\ ret = response.content
               /\ IsEmit(trace[Len(trace)], "session:end")
               /\ IsAssistantFinal(trace[Len(trace) - 1])
               /\ IsCall(trace[Len(trace) - 2], "complete", "ok")
               /\ Cardinality({i \in DOMAIN trace : IsAssistantFinal(trace[i])}) = 1

\* C5 witness: after an iteration with tool calls the provider answered "c1"
\* without tool calls, and execute() has returned.
C5_Witness ==
    /\ pc = "done"
    /\ Len(recent) >= 2
    /\ IsCall(recent[2], "complete", "ok")
    /\ tool_calls = << >>
    /\ response.content = <<"c1">>
    /\ ToolResponses >= 1

\* C6 as stated: a run never makes more than max_iterations completion calls, and
\* when every one of the max_iterations responses requested a tool call no further
\* completion is requested and execute() returns "", which session:end carries.
C6_Original ==
    (pc = "done" /\ provider # None) =>
      /\ Completions <= max_iterations
      /\ ToolResponses = max_iterations =>
           /\ ret = << >>
           /\ recent[Len(recent)].data.response = << >>

\* C6 amended: the number of completion calls never exceeds max_iterations when
\* max_iterations is positive and is zero otherwise; when as many responses as the
\* cap allows (max_iterations, or none when it is zero or negative) have all
\* requested tool calls, no further completion is requested, final_response is
\* still "", and execute() returns "", which session:end carries.
C6_IterationCap ==
    /\ Completions <= Max0(max_iterations)
    /\ Completions = (IF pc = "complete" THEN iteration - 1 ELSE iteration)
    /\ (provider # None /\ ToolResponses = Max0(max_iterations)) =>
         /\ Completions = ToolResponses
         /\ final_response = << >>
         /\ pc \notin {"complete", "add_final", "error_provider"}
         /\ pc = "done" =>
              /\ ret = << >>
              /\ IsEmit(recent[Len(recent)], "session:end")
              /\ recent[Len(recent)].data.response = << >>

\* C6 witness: max_iterations = 2, both responses requested a tool call, and
\* execute() has returned "".
C6_Witness ==
    /\ pc = "done"
    /\ max_iterations = 2
    /\ ToolResponses = 2
    /\ Completions = 2
    /\ ret = << >>


\* an entry that opens the next iteration or closes the session
EndsIteration(e) == e.op = "get_messages" \/ IsEmit(e, "session:end")

\* C7: the compaction check (should_compact) is made only when all tool calls of
\* the iteration have been answered and nothing but their processing has happened
\* since the assistant message, so once in an iteration, after its tool execution;
\* when it answers yes, context:pre-compact and then compact() follow at once,
\* once each, and only then the next iteration's completion request (or
\* session:end); context:pre-compact and compact() occur nowhere else, hence never
\* before the first iteration's tool processing; and an iteration that processed
\* tool calls is never left without the check.  (Stated of the latest call logged:
\* the logs only grow, so it holds of every call at the time it was made.)
C7_Compaction ==
    LET n == Len(trace)
        last == trace[n]
        prev == trace[n - 1]
    IN  /\ (n >= 1 /\ last.op = "should_compact") =>
             /\ LastAssistantCalls # 0
             /\ ReplyIds = trace[LastAssistantCalls].ids
             /\ \A m \in (LastAssistantCalls + 1)..(n - 1) :
                  trace[m].op \notin {"get_messages", "complete", "should_compact",
                                      "compact"}
             /\ last.outcome = "yes" => pc = "pre_compact"
             /\ last.outcome = "no" => pc \in {"loop", "end"}
        /\ (n >= 1 /\ IsEmit(last, "context:pre-compact")) =>
             n >= 2 /\ IsCall(prev, "should_compact", "yes") /\ pc = "compact"
        /\ (n >= 1 /\ last.op = "compact") =>
             n >= 2 /\ IsEmit(prev, "context:pre-compact") /\ pc \in {"loop", "end"}
        /\ (n >= 2 /\ IsCall(prev, "should_compact", "yes")) =>
             IsEmit(last, "context:pre-compact")
        /\ (n >= 2 /\ IsEmit(prev, "context:pre-compact")) => last.op = "compact"
        /\ (n >= 2 /\ (prev.op = "compact" \/ IsCall(prev, "should_compact", "no"))) =>
             EndsIteration(last)
        /\ (n >= 2 /\ EndsIteration(last)
              /\ (IsToolMessage(prev) \/ prev.op = "execute" \/ prev.op = "emit")) =>
             IsEmit(last, "session:end") /\ IsEmit(prev, "error:provider")
        /\ (n >= 1 /\ last.op = "complete") =>
             /\ n >= 2 /\ prev.op = "get_messages"
             /\ n >= 3 =>
                  \/ trace[n - 2].op = "compact"
                  \/ IsCall(trace[n - 2], "should_compact", "no")
                  \/ trace[n - 2].op = "add_message" /\ trace[n - 2].name = "user"

\* C7 witness: after the tool calls of the first iteration the context asked for
\* compaction, context:pre-compact and compact() followed, and the second
\* iteration has requested its completion.
C7_Witness ==
    \E j \in DOMAIN trace :
      /\ IsCall(trace[j], "should_compact", "yes")
      /\ Len(trace) >= j + 4
      /\ trace[j + 2].op = "compact"
      /\ trace[j + 3].op = "get_messages"
      /\ trace[j + 4].op = "complete"

NoProviderRun ==
    <<Emit("session:start", << >>, [prompt |-> Prompt], Allow),
      AddMessage([role |-> "user", content |-> <<Prompt>>])>>

\* C8: with an empty providers mapping execute() emits session:start, appends the
\* user message, then checks the provider and returns exactly "Error: No providers
\* available": nothing else is ever emitted, appended or called (no session:end,
\* no completion request).
C8_NoProvider ==
    providers = << >> =>
      /\ pc \in {"start", "add_user", "select", "done"}
      /\ provider = None
      /\ Len(recent) <= 2
      /\ recent = SubSeq(NoProviderRun, 1, Len(recent))
      /\ trace = [i \in DOMAIN recent |-> Skeleton(recent[i])]
      /\ pc = "select" => recent = NoProviderRun
      /\ pc = "done" =>
           /\ recent = NoProviderRun
           /\ ret = <<"Error: No providers available">>
      /\ pc # "done" => ret = NotReturned

\* C8 witness: execute() has returned on an empty providers mapping (with a
\* default_provider configured).
C8_Witness ==
    /\ providers = << >>
    /\ default_provider = "p2"
    /\ pc = "done"
    /\ ret = <<"Error: No providers available">>

\* C9: with a non-empty providers mapping session:start is emitted once and is the
\* first collaborator call; session:end is emitted at most once and nothing is
\* logged after it; execute() has returned exactly when session:end has been
\* emitted, and the response it carries is the returned text.
C9_SessionEnd ==
    providers # << >> =>
      /\ trace # << >> => Emits(trace, "session:start") = {1}
      /\ Emits(trace, "session:end") \subseteq {Len(trace)}
      /\ (pc = "done") = (Emits(trace, "session:end") # {})
      /\ (ret # NotReturned) = (pc = "done")
      /\ pc = "done" =>
           /\ IsEmit(recent[Len(recent)], "session:end")
           /\ recent[Len(recent)].data.response = ret

\* C9 witness: execute() has returned the provider's answer "c1" after an
\* iteration with tool calls.
C9_Witness ==
    /\ providers # << >>
    /\ pc = "done"
    /\ ret = <<"c1">>
    /\ ToolResponses >= 1

\* C10: when tool:pre returns deny for a call (which tool:selecting had allowed or
\* modified), the tool is not executed, no tool:post is emitted for the call, the
\* only thing that follows is one tool-role message for the call's id whose
\* content is "Error: " and the reason (the default when the reason is None or
\* empty), and the for loop is then at the next tool call.  A tool is executed
\* only right after a tool:pre that did not deny, in a call whose tool:selecting
\* did not deny.
C10_PreDeny ==
    /\ \A k \in DOMAIN recent :
         (IsEmit(recent[k], "tool:pre") /\ recent[k].verdict.action = "deny") =>
           LET reason == recent[k].verdict.reason
               text == IF reason \in {None, ""} THEN "Tool execution denied" ELSE reason
           IN  /\ k = 3
               /\ InCall
               /\ recent[1].verdict.action \in {"allow", "modify"}
               /\ \A i \in DOMAIN recent :
                    recent[i].op # "execute" /\ ~IsEmit(recent[i], "tool:post")
               /\ Len(recent) <= 4
               /\ Len(recent) = 3 => pc = "pre_deny_msg"
               /\ Len(recent) = 4 =>
                    /\ recent[4].op = "add_message"
                    /\ recent[4].data = [role |-> "tool", name |-> recent[3].data.tool,
                                         tool_call_id |-> CallId,
                                         content |-> <<"Error: ", text>>]
                    /\ AtNextCall
    /\ \A i \in DOMAIN recent :
         recent[i].op = "execute" =>
           /\ i = 4
           /\ InCall
           /\ recent[1].verdict.action # "deny"
           /\ IsEmit(recent[3], "tool:pre")
           /\ recent[3].verdict.action # "deny"
    /\ \A i \in Calls(trace, "execute") :
         i > 1 /\ IsEmit(trace[i - 1], "tool:pre") /\ trace[i - 1].ids = trace[i].ids

\* C10 witness: the scheduler rewrote a call to the existing tool t1, tool:pre then
\* denied it with a reason, the reply has been appended and another tool call of
\* the same response is next.
C10_Witness ==
    /\ InCall
    /\ recent[1].verdict.action = "modify"
    /\ Len(recent) = 4
    /\ IsEmit(recent[3], "tool:pre")
    /\ recent[3].verdict.action = "deny"
    /\ recent[3].verdict.reason = "r1"
    /\ recent[3].data.tool_obj = "t1"
    /\ tool_calls # << >>

\* C11: for a call that neither hook denied and whose resolved tool name is not a
\* key of tools, what follows tool:pre is exactly: the tool-role message "Error:
\* Tool <name> not found" for the call's id, then one error:tool event with
\* error_type "tool_not_found" and severity "medium"; no tool is invoked and no
\* tool:post is emitted for the call, and the for loop is then at the next tool
\* call (the while loop has not been left).
C11_NotFound ==
    (/\ InCall
     /\ Len(recent) >= 3
     /\ IsEmit(recent[3], "tool:pre")
     /\ recent[3].verdict.action # "deny"
     /\ recent[3].data.tool \notin tools) =>
      LET name == recent[3].data.tool
      IN  /\ recent[1].verdict.action # "deny"
          /\ \A i \in DOMAIN recent :
               recent[i].op # "execute" /\ ~IsEmit(recent[i], "tool:post")
          /\ \A i \in Calls(trace, "execute") : trace[i].ids # <<CallId>>
          /\ Len(recent) <= 5
          /\ Len(recent) = 3 => pc = "not_found_msg"
          /\ Len(recent) >= 4 =>
               /\ recent[4].op = "add_message"
               /\ recent[4].data = [role |-> "tool", name |-> name,
                                    tool_call_id |-> CallId,
                                    content |-> <<"Error: Tool ", name, " not found">>]
          /\ Len(recent) = 4 => pc = "error_not_found"
          /\ Len(recent) = 5 =>
               /\ IsEmit(recent[5], "error:tool")
               /\ recent[5].ids = <<CallId>>
               /\ recent[5].data.error_type = "tool_not_found"
               /\ recent[5].data.severity = "medium"
               /\ AtNextCall

\* C11 witness: the scheduler rewrote a call for the existing tool t1 to t2, which
\* is not a tool; the call has been answered and reported, and another tool call
\* of the same response is next.
C11_Witness ==
    /\ InCall
    /\ Len(recent) = 5
    /\ tools = {"t1"}
    /\ Requested = "t1"
    /\ recent[3].data.tool = "t2"
    /\ recent[5].data.error_type = "tool_not_found"
    /\ tool_calls # << >>

\* C12: when the tool's execute() raises, what follows for that call is exactly:
\* one error:tool event (error_type "execution_failed", severity "high", tool =
\* the resolved name), then tool:post, then one tool-role message for the call's
\* id whose content starts with "Error: "; the for loop is then at the next tool
\* call.  The while loop is left before the iteration cap only by a final answer
\* or a provider failure, never by a tool failure: the entry logged before
\* session:end is then the final assistant message or error:provider.
C12_ToolRaises ==
    /\ (/\ InCall
        /\ Len(recent) >= 4
        /\ IsCall(recent[4], "execute", "raise")) =>
         /\ Len(recent) <= 7
         /\ Len(recent) = 4 => pc = "error_tool"
         /\ Len(recent) >= 5 =>
              /\ IsEmit(recent[5], "error:tool")
              /\ recent[5].ids = <<CallId>>
              /\ recent[5].data.error_type = "execution_failed"
              /\ recent[5].data.severity = "high"
              /\ recent[5].data.tool = recent[3].data.tool
              /\ recent[5].data.tool = recent[4].name
         /\ Len(recent) = 5 => pc = "post"
         /\ Len(recent) >= 6 =>
              /\ IsEmit(recent[6], "tool:post")
              /\ recent[6].ids = <<CallId>>
              /\ recent[6].data.tool = recent[4].name
         /\ Len(recent) = 6 => pc = "add_result"
         /\ Len(recent) = 7 =>
              /\ IsToolMessage(recent[7])
              /\ recent[7].data.tool_call_id = CallId
              /\ recent[7].data.name = recent[4].name
              /\ Len(recent[7].data.content) >= 1
              /\ recent[7].data.content[1] = "Error: "
              /\ AtNextCall
    /\ (pc \in {"end", "done"} /\ provider # None /\ iteration < max_iterations) =>
         LET n == IF pc = "done" THEN Len(trace) - 1 ELSE Len(trace)
         IN  n >= 1 /\ (IsAssistantFinal(trace[n]) \/ IsEmit(trace[n], "error:provider"))

\* C12 witness: a tool raised in the first iteration, its call was answered, and
\* the second iteration has requested its completion.
C12_Witness ==
    /\ iteration = 2
    /\ Cardinality(Calls(trace, "complete")) = 2
    /\ \E i \in Calls(trace, "execute") :
         /\ trace[i].outcome = "raise"
         /\ IsEmit(trace[i + 1], "error:tool")
         /\ IsEmit(trace[i + 2], "tool:post")
         /\ IsToolMessage(trace[i + 3])

\* an entry that is about one tool call
HasIds(e) == e.ids # << >>
\* the step of a tool call an entry is (0: the error:tool report, which has no
\* fixed place among them)
Stage(e) ==
    IF IsEmit(e, "tool:selecting") THEN 1
    ELSE IF IsEmit(e, "tool:selected") THEN 2
    ELSE IF IsEmit(e, "tool:pre") THEN 3
    ELSE IF e.op = "execute" THEN 4
    ELSE IF IsEmit(e, "tool:post") THEN 5
    ELSE IF IsToolMessage(e) THEN 6
    ELSE 0
IsStage(e) == Stage(e) # 0
HappyPath == <<1, 2, 3, 4, 5, 6>>

\* C13: the tool calls of a response are processed one after the other, in the
\* order of the assistant message's descriptors: what is logged about them
\* after that message is grouped by call, the groups in descriptor order, each
\* group opening with tool:selecting and the one before it closed by its
\* tool-role message or its error:tool report (so the tool-role messages are in
\* descriptor order too), and nothing else is logged until all the calls have
\* been answered
\* (stated of the latest entry logged: the logs only grow); while a tool's execute() is awaited every earlier call
\* of the response has been answered and no later one has been touched; within a
\* call the steps come in the order tool:selecting, tool:selected, tool:pre,
\* execute, tool:post, message, and a call that reaches execute goes through all
\* six.
C13_Sequential ==
    /\ LET n == Len(trace)
           a == LastAssistantCalls
           ids == trace[a].ids
           last == trace[n]
           prev == trace[n - 1]
           Pos(id) == CHOOSE k \in DOMAIN ids : ids[k] = id
       IN  /\ (a # 0 /\ n > a /\ HasIds(last)) =>
                /\ Len(last.ids) = 1
                /\ \E k \in DOMAIN ids : ids[k] = last.ids[1]
                /\ n = a + 1 =>
                     IsEmit(last, "tool:selecting") /\ last.ids = <<ids[1]>>
                /\ n > a + 1 =>
                     \/ last.ids = prev.ids /\ ~IsEmit(last, "tool:selecting")
                     \/ /\ Len(prev.ids) = 1
                        /\ Pos(last.ids[1]) = Pos(prev.ids[1]) + 1
                        /\ IsEmit(last, "tool:selecting")
                        /\ \/ IsToolMessage(prev)
                           \/ /\ IsEmit(prev, "error:tool")
                              /\ IsToolMessage(trace[n - 2])
                              /\ trace[n - 2].ids = prev.ids
           /\ (a # 0 /\ n > a /\ ~HasIds(last) /\ HasIds(prev)) =>
                last.op = "should_compact" /\ ReplyIds = ids
           /\ pc = "execute" =>
                /\ a # 0
                /\ ids = ReplyIds \o <<CallId>> \o RemainingIds
                /\ \A m \in (a + 1)..(n - 1) :
                     trace[m].op = "execute" => trace[m].ids # <<CallId>>
    /\ InCall =>
         LET steps == SelectSeq(recent, IsStage)
             st == [k \in DOMAIN steps |-> Stage(steps[k])]
         IN  /\ \A k \in DOMAIN recent : recent[k].ids = <<CallId>>
             /\ \A k \in 1..(Len(st) - 1) : st[k] < st[k + 1]
             /\ (\E k \in DOMAIN st : st[k] \in {4, 5}) =>
                  st = SubSeq(HappyPath, 1, Len(st))

\* C13 witness: a response with two tool calls; the first was executed and
\* answered, and the second is now being executed.
C13_Witness ==
    /\ pc = "execute"
    /\ LastAssistantCalls # 0
    /\ Len(trace[LastAssistantCalls].ids) = 2
    /\ CallId = trace[LastAssistantCalls].ids[2]
    /\ \E i \in Calls(trace, "execute") :
         trace[i].ids = <<trace[LastAssistantCalls].ids[1]>>
    /\ ReplyIds = <<trace[LastAssistantCalls].ids[1]>>

\* C14 as stated: tool:pre is emitted for a tool call only when the resolved tool
\* is a key of the tools mapping.
C14_Original ==
    \A i \in DOMAIN recent :
      IsEmit(recent[i], "tool:pre") => recent[i].data.tool \in tools

\* C14 amended: tool:pre is emitted for every tool call that tool:selecting did
\* not deny, right after tool:selected and whether or not the resolved tool is a
\* key of the tools mapping; what depends on the tool being found is only the
\* payload, which carries the tool object when it is found and none when it is
\* not.  A call that tool:selecting denied gets no tool:pre.
C14_PreEmitted ==
    /\ InCall =>
         /\ recent[1].verdict.action = "deny" =>
              \A i \in DOMAIN recent : ~IsEmit(recent[i], "tool:pre")
         /\ recent[1].verdict.action # "deny" =>
              /\ Len(recent) = 1 => pc = "selected"
              /\ Len(recent) = 2 => IsEmit(recent[2], "tool:selected") /\ pc = "pre"
              /\ Len(recent) >= 3 =>
                   /\ IsEmit(recent[3], "tool:pre")
                   /\ recent[3].data.tool = recent[2].data.tool
                   /\ recent[3].ids = <<CallId>>
    /\ \A i \in DOMAIN recent :
         IsEmit(recent[i], "tool:pre") =>
           /\ i = 3
           /\ recent[i].data.tool_obj =
                (IF recent[i].data.tool \in tools THEN recent[i].data.tool ELSE None)

\* C14 witness: tool:pre has been emitted, and has allowed, a call whose resolved
\* tool t2 is not among the tools {t1}; the call is then answered "not found".
C14_Witness ==
    /\ InCall
    /\ tools = {"t1"}
    /\ Len(recent) >= 4
    /\ IsEmit(recent[3], "tool:pre")
    /\ recent[3].data.tool = "t2"
    /\ recent[3].data.tool_obj = None
    /\ recent[3].verdict.action = "allow"
    /\ IsToolMessage(recent[4])

\* the events whose HookResult execute() does not bind
Uninspected == {"session:start", "tool:selected", "tool:post", "context:pre-compact",
                "error:provider", "error:tool", "session:end"}

\* C15: a step that emits session:start, tool:selected, tool:post,
\* context:pre-compact, error:provider, error:tool or session:end leaves execute()
\* in a state that is a function of the state before the emission alone, whatever
\* HookResult (allow, deny, modify) the hook bus returned: the position reached,
\* every local and the returned text are those of the allow case, so everything
\* that follows (tool executions, messages, events, the returned string) is the
\* same; the only HookResults execute() keeps are those of tool:selecting and
\* tool:pre.
C15_OnlyInspected ==
    [][LET e == recent'[Len(recent')]
           kept == <<provider, iteration, response, tool_calls, nextId, config>>
       IN  /\ discarded' # NoVerdict =>
                /\ e.op = "emit" /\ e.name \in Uninspected
                /\ kept' = kept
                /\ hook_result' \in {hook_result, Allow}
                /\ pre_hook_result' \in {pre_hook_result, Allow}
                /\ e.name = "session:start" =>
                     pc' = "add_user" /\ UNCHANGED <<locals, ret>>
                /\ e.name = "tool:selected" =>
                     /\ pc' = "pre"
                     /\ tool' = (IF tool_name \in tools THEN tool_name ELSE None)
                     /\ UNCHANGED <<final_response, tool_call, tool_name, hook_result,
                                    pre_hook_result, result, exc, ret>>
                /\ e.name = "tool:post" =>
                     pc' = "add_result" /\ UNCHANGED <<locals, ret>>
                /\ e.name = "context:pre-compact" =>
                     pc' = "compact" /\ UNCHANGED <<locals, ret>>
                /\ e.name = "error:provider" =>
                     /\ pc' = "end"
                     /\ final_response' = <<"Error getting response: ", exc>>
                     /\ UNCHANGED <<tool_call, tool_name, hook_result, pre_hook_result,
                                    tool, result, ret>>
                /\ (e.name = "error:tool" /\ e.data.error_type = "tool_not_found") =>
                     /\ pc' = "for"
                     /\ tool_call' = NoCall
                     /\ UNCHANGED <<final_response, ret>>
                /\ (e.name = "error:tool" /\ e.data.error_type = "execution_failed") =>
                     /\ pc' = "post"
                     /\ UNCHANGED <<final_response, tool_call, tool_name, hook_result,
                                    pre_hook_result, tool, result, ret>>
                /\ e.name = "session:end" =>
                     /\ pc' = "done"
                     /\ ret' = final_response
                     /\ UNCHANGED locals
           /\ (Len(trace') > Len(trace) /\ e.op = "emit") =>
                IF e.name \in Uninspected
                THEN discarded' # NoVerdict
                ELSE /\ discarded' = NoVerdict
                     /\ e.name = "tool:selecting" => hook_result' = e.verdict
                     /\ e.name = "tool:pre" => pre_hook_result' = e.verdict
    ]_vars

\* C15 witness: tool:post has just been answered with deny for a tool that ran
\* successfully, and execute() is about to append the tool's output as the reply.
C15_Witness ==
    /\ discarded.action = "deny"
    /\ pc = "add_result"
    /\ result.success
    /\ IsEmit(recent[Len(recent)], "tool:post")

\* ------------------------------------------------------------------ provider selection
\* The providers mappings and default_provider values explored for the selection
\* policy: no provider; no default; a default that is the second key; a default
\* that is no key; an empty default that is a key.
SelectConfigs ==
    {[providers |-> << >>, default_provider |-> "p2"],
     [providers |-> <<"p1", "p2">>, default_provider |-> None],
     [providers |-> <<"p1", "p2">>, default_provider |-> "p2"],
     [providers |-> <<"p1", "p2">>, default_provider |-> "p3"],
     [providers |-> <<"p1", "">>, default_provider |-> ""]}

\* execute() entered with one of these configurations, one iteration allowed and
\* the tool t1.
InitSelect ==
    /\ max_iterations = 1
    /\ \E c \in SelectConfigs :
         /\ providers = c.providers
         /\ default_provider = c.default_provider
    /\ tools = {"t1"}
    /\ pc = "start"
    /\ provider = None
    /\ iteration = 0
    /\ final_response = << >>
    /\ response = NoResponse
    /\ tool_calls = << >>
    /\ tool_call = NoCall
    /\ tool_name = None
    /\ hook_result = Allow
    /\ pre_hook_result = Allow
    /\ tool = None
    /\ result = NoResult
    /\ exc = None
    /\ ret = NotReturned
    /\ nextId = 1
    /\ trace = << >>
    /\ recent = << >>
    /\ discarded = NoVerdict
    /\ other = Entered(1)
    /\ sid = 1

SpecSelect == InitSelect /\ [][Next]_vars

IsKey(k) == \E i \in DOMAIN providers : providers[i] = k
\* execute() is past the selection
Selected == pc \notin {"start", "add_user", "select"}

Switch ==
    /\ other' = Running
    /\ pc' = other.pc
    /\ provider' = other.provider
    /\ iteration' = other.iteration
    /\ final_response' = other.final_response
    /\ response' = other.response
    /\ tool_calls' = other.tool_calls
    /\ tool_call' = other.tool_call
    /\ tool_name' = other.tool_name
    /\ hook_result' = other.hook_result
    /\ pre_hook_result' = other.pre_hook_result
    /\ tool' = other.tool
    /\ result' = other.result
    /\ exc' = other.exc
    /\ ret' = other.ret
    /\ nextId' = other.nextId
    /\ trace' = other.trace
    /\ recent' = other.recent
    /\ discarded' = other.discarded
    /\ sid' = 3 - sid
    /\ UNCHANGED config

\* Two execute() invocations entered on one orchestrator (one iteration allowed,
\* one provider, the tool t1): the provider issues the first session one tool
\* call at most and the second session none.
InitTwo ==
    /\ max_iterations = 1
    /\ providers = <<"p1">>
    /\ default_provider = None
    /\ tools = {"t1"}
    /\ pc = "start"
    /\ provider = None
    /\ iteration = 0
    /\ final_response = << >>
    /\ response = NoResponse
    /\ tool_calls = << >>
    /\ tool_call = NoCall
    /\ tool_name = None
    /\ hook_result = Allow
    /\ pre_hook_result = Allow
    /\ tool = None
    /\ result = NoResult
    /\ exc = None
    /\ ret = NotReturned
    /\ nextId = MaxTotalCalls
    /\ trace = << >>
    /\ recent = << >>
    /\ discarded = NoVerdict
    /\ other = Entered(MaxTotalCalls + 1)
    /\ sid = 1

NextTwo ==
    \/ Next
    \/ Switch

SpecTwo == InitTwo /\ [][NextTwo]_vars

\* the two sessions, whichever is running
Session(n) == IF sid = n THEN Running ELSE other
\* what a session's collaborators and caller have seen of it
Observed(s) == <<s.trace, s.recent, s.ret>>

\* C17: two execute() invocations on one orchestrator, interleaved at will.  No
\* step writes an orchestrator field or the providers or tools mapping; a step of
\* one session changes nothing of the other (its position, its locals, its event
\* sequence, its message history, its returned text), and a suspension changes
\* nothing of either, so what each session does is a run of execute() alone on
\* the same collaborator answers.  Nothing of one session shows in the other: the
\* tool call the provider issued to the first session is processed by it only,
\* the second session, which was issued none, processes none, and each returns
\* what its own session:end carried.
C17_Independent ==
    /\ [][/\ config' = config
          /\ sid' = sid => other' = other
          /\ sid' # sid =>
               /\ other' = Running
               /\ Running' = other
               /\ Observed(Session(1))' = Observed(Session(1))
               /\ Observed(Session(2))' = Observed(Session(2))
       ]_vars
    /\ [](/\ sid \in {1, 2}
          /\ \A i \in DOMAIN Session(1).trace :
               Session(1).trace[i].ids \in {<< >>, <<MaxTotalCalls>>}
          /\ \A i \in DOMAIN Session(2).trace : Session(2).trace[i].ids = << >>
          /\ \A n \in {1, 2} :
               LET s == Session(n)
               IN  /\ s.iteration <= 1
                   /\ s.pc = "done" =>
                        /\ IsEmit(s.recent[Len(s.recent)], "session:end")
                        /\ s.recent[Len(s.recent)].data.response = s.ret
                   /\ s.pc # "done" => s.ret = NotReturned)

\* C17 witness: both sessions are in mid-run at once: the first is about to
\* append the reply of its tool call, the second is suspended after its provider
\* failed; neither has returned.
C17_Witness ==
    /\ sid = 1
    /\ pc = "add_result"
    /\ InCall
    /\ other.pc = "error_provider"
    /\ Len(other.trace) = 4
    /\ ret = NotReturned /\ other.ret = NotReturned

\* ------------------------------------------------------------------ termination
\* Every collaborator call returns or raises and the event loop resumes execute():
\* a step that can be taken is eventually taken.
\* execute() entered with any max_iterations explored, with or without a provider,
\* and the tool t1; the provider issues two tool calls at most in the session.
InitLive ==
    /\ max_iterations \in (0 - MinIterations)..MaxIterations
    /\ providers \in {<< >>, <<"p1">>}
    /\ default_provider = None
    /\ tools = {"t1"}
    /\ pc = "start"
    /\ provider = None
    /\ iteration = 0
    /\ final_response = << >>
    /\ response = NoResponse
    /\ tool_calls = << >>
    /\ tool_call = NoCall
    /\ tool_name = None
    /\ hook_result = Allow
    /\ pre_hook_result = Allow
    /\ tool = None
    /\ result = NoResult
    /\ exc = None
    /\ ret = NotReturned
    /\ nextId = MaxTotalCalls - 1
    /\ trace = << >>
    /\ recent = << >>
    /\ discarded = NoVerdict
    /\ other = Entered(1)
    /\ sid = 1

SpecLive == InitLive /\ [][Next]_vars /\ WF_vars(Next)

C19_History ==
    LET n == Len(trace)
        last == trace[n]
        a == LastAssistantCalls
    IN  /\ n >= 2 =>
             /\ trace[1].op # "add_message"
             /\ trace[2].op = "add_message" /\ trace[2].name = "user"
        /\ n = 2 => recent[2].data = [role |-> "user", content |-> <<Prompt>>]
        /\ (n >= 1 /\ last.op = "add_message") =>
             /\ last.name \in {"user", "assistant", "tool"}
             /\ last.name = "user" => n = 2
             /\ IsToolMessage(last) =>
                  /\ a # 0
                  /\ Len(last.ids) = 1
                  /\ \E k \in DOMAIN trace[a].ids : trace[a].ids[k] = last.ids[1]
                  /\ \A m \in (a + 1)..(n - 1) :
                       ~(trace[m].op = "add_message" /\ trace[m].name = "assistant")
                  /\ recent[Len(recent)].data.role = "tool"
                  /\ recent[Len(recent)].data.tool_call_id = last.ids[1]
             /\ \A m \in 1..(n - 1) :
                  /\ ~IsCall(trace[m], "complete", "raise")
                  /\ ~IsAssistantFinal(trace[m])
             /\ IsAssistantCalls(last) => IsCall(trace[n - 1], "complete", "ok")
             /\ IsAssistantFinal(last) => IsCall(trace[n - 1], "complete", "ok")

\* C19 witness: the first iteration's tool call was answered, the second
\* iteration's response was the final answer, and execute() has returned.
C19_Witness ==
    /\ pc = "done"
    /\ ToolResponses = 1
    /\ \E i \in DOMAIN trace : IsToolMessage(trace[i])
    /\ Len(trace) >= 2
    /\ IsAssistantFinal(trace[Len(trace) - 1])

\* C20: within a tool call the only thing a hook verdict changes is the tool
\* name, and only the verdict of tool:selecting does: from tool:selected on the
\* name is the one resolved there (the data's "tool" on modify, else the
\* requested one) in every event, in the execution and in the reply; the
\* arguments carried by tool:pre and passed to tool.execute are the tool call's
\* own, whatever the verdicts' data hold; the reply's tool_call_id is the call's
\* id; and a modify returned by tool:pre is followed by what follows an allow:
\* the execution of the tool already resolved, or the not-found reply.
C20_OnlyToolName ==
    InCall =>
      LET v == recent[1].verdict
          original == recent[1].data.arguments
          named == v.action = "modify" /\ ~v.data.isNone
                   /\ \E p \in v.data.items : p[1] = "tool"
          resolved == IF named
                      THEN (CHOOSE p \in v.data.items : p[1] = "tool")[2]
                      ELSE Requested
      IN  /\ tool_call # NoCall =>
               /\ tool_call.id = CallId
               /\ tool_call.arguments = original
               /\ tool_call.tool = Requested
          /\ original \in Args
          /\ \A i \in DOMAIN recent :
               /\ IsEmit(recent[i], "tool:pre") => recent[i].data.arguments = original
               /\ recent[i].op = "execute" =>
                    recent[i].data.arguments = original /\ recent[i].name = resolved
               /\ IsToolMessage(recent[i]) =>
                    /\ recent[i].data.tool_call_id = CallId
                    /\ recent[i].data.name = (IF i = 2 THEN Requested ELSE resolved)
               /\ (i >= 2 /\ recent[i].op = "emit" /\ recent[i].name # "error:tool") =>
                    recent[i].data.tool = resolved
          /\ (Len(recent) >= 3 /\ recent[3].verdict.action = "modify") =>
               /\ Len(recent) = 3 =>
                    pc = (IF resolved \in tools THEN "execute" ELSE "not_found_msg")
               /\ Len(recent) >= 4 =>
                    IF resolved \in tools
                    THEN recent[4].op = "execute" /\ recent[4].name = resolved
                    ELSE /\ IsToolMessage(recent[4])
                         /\ recent[4].data.content = <<"Error: Tool ", resolved, " not found">>

\* C20 witness: the call asked for t1 with arguments a1; tool:pre answered modify
\* with data naming t2 and other arguments, and t1 was executed with a1.
C20_Witness ==
    /\ InCall
    /\ Len(recent) >= 4
    /\ Requested = "t1"
    /\ recent[3].verdict.action = "modify"
    /\ recent[3].verdict.data = Dict({<<"tool", "t2">>})
    /\ recent[4].op = "execute"
    /\ recent[4].name = "t1"
    /\ recent[4].data.arguments = "a1"

====
